---- MODULE Spec2Model ----
(***************************************************************************)
(* Model of the gedoc document service (server/main.go): the BuildLatex,   *)
(* Merge and Health RPC handlers, the pipelines buildLatexPDF, mergeFiles  *)
(* and imageToPDF they drive, and the temporary-directory filesystem they  *)
(* work in.  Every request is a process with a program counter; every step *)
(* of a pipeline that touches the filesystem is one action, and a run of   *)
(* an external tool is two, its start and the return of the call that      *)
(* waits for it, with the outcomes of the tool or of the I/O call as a     *)
(* nondeterministic choice.                                                *)
(***************************************************************************)
EXTENDS Integers, Sequences, FiniteSets, TLC

(***************************************************************************)
(* Bounds of the model.                                                    *)
(***************************************************************************)
NumReqs == 2

MaxFiles == 2

MaxPages == 2

NumSuffix == 2

Reqs == 1..NumReqs

(***************************************************************************)
(* Byte contents.  A content is abstracted to its magic number (what       *)
(* filetype.Match sees), its page count when it is a PDF, and where it     *)
(* comes from.  NoData is the empty byte slice (nil).                      *)
(***************************************************************************)
Data(m, p, o) == [magic |-> m, pages |-> p, of |-> o]

NoData == Data("none", 0, "none")

IsEmpty(d) == d.magic = "none"

\* a non-empty proper prefix of d, as a read that fails half way returns it
Partial(d) == Data("partial", 0, d.magic)

\* the fixed configuration written by copyLatexSettings
latexMakeConfig == Data("latexmkrc", 0, "embedded")

\* the PDF the build engine leaves in the workspace
BuiltPDF == Data("pdf", 1, "latexmk")

\* number of pages of the reference blank PDF at cfg.PdfBlankPath
BlankPages == 1

(***************************************************************************)
(* Errors.  NilErr is Go's nil error.                                      *)
(***************************************************************************)
Err(m, n, c) == [msg |-> m, name |-> n, code |-> c]

NilErr == Err("nil", "", 0)

\* the error exec returns for a non-zero exit status
ExitErr(c) == Err("exit status", "", c)

\* the error exec returns when the tool cannot be started
StartErr == Err("exec: executable file not found", "", 0)

IOErr == Err("i/o error", "", 0)

(***************************************************************************)
(* Paths.  A path is the sequence of its components below the temporary    *)
(* root os.TempDir(); a file name given by the caller is the sequence of   *)
(* the components between its separators.                                  *)
(***************************************************************************)
DirName(prefix, n) == prefix \o ToString(n)

DirNames(prefix) == {DirName(prefix, n) : n \in 1..NumSuffix}

RECURSIVE Resolve(_, _)
\* the kernel's resolution of directory + "/" + name: ".." leaves a directory
Resolve(acc, comps) ==
    IF comps = <<>> THEN acc
    ELSE IF Head(comps) = ".."
         THEN Resolve(IF acc = <<>> THEN acc ELSE SubSeq(acc, 1, Len(acc) - 1), Tail(comps))
         ELSE Resolve(Append(acc, Head(comps)), Tail(comps))

Join(directory, name) == Resolve(<<directory>>, name)

\* a file can be created at path p: its parent directory exists and p is no directory
Writable(p, ds) ==
    /\ Len(p) \in {1, 2}
    /\ Len(p) = 2 => p[1] \in ds
    /\ Len(p) = 1 => p[1] \notin ds

Put(f, p, d) == [q \in DOMAIN f \cup {p} |-> IF q = p THEN d ELSE f[q]]

\* os.RemoveAll(path): the directory and everything below it
RemoveAll(f, d) == [q \in {x \in DOMAIN f : x[1] # d} |-> f[q]]

\* an entry of a request's history: what was done, to which file or document;
\* for a tool run, what the tool printed, its exit status, whether it started
Event(e, k, p, d) ==
    [ev |-> e, i |-> k, path |-> p, data |-> d, docs |-> <<>>, others |-> {},
     out |-> "", code |-> 0, started |-> TRUE]

\* a tool run that printed o and exited with status c
Ran(e, o, c) == [e EXCEPT !.out = o, !.code = c]

\* a tool that could not be started
NotStarted(e) == [e EXCEPT !.started = FALSE]

(***************************************************************************)
(* State.                                                                  *)
(*   rq[r]  the request slot r: its program counter, the local variables   *)
(*          of the handler and of the pipeline functions, the subprocess   *)
(*          it waits for, the number of its subprocesses that have not     *)
(*          exited, and whether its context has been cancelled             *)
(*   dirs   the directories that exist below the temporary root            *)
(*   fs     the files that exist below the temporary root, path |-> bytes  *)
(*   health the last reply of the Health RPC                               *)
(***************************************************************************)
VARIABLES rq, dirs, fs, health

vars == <<rq, dirs, fs, health>>

NoHealthReply == [healthy |-> FALSE, rpcErr |-> NilErr, set |-> FALSE]

NoReply == [data |-> NoData, success |-> FALSE, note |-> NilErr, rpcErr |-> NilErr, set |-> FALSE]

Idle ==
    [pc |-> "idle", op |-> "none", files |-> <<>>, forceEven |-> FALSE,
     id |-> "", directory |-> "", i |-> 0, prepared |-> <<>>, args |-> <<>>,
     final |-> NoData, err |-> NilErr, pageCount |-> 0,
     imgId |-> "", imgDirectory |-> "", pdf |-> NoData, imgErr |-> NilErr,
     reply |-> NoReply, log |-> <<>>, created |-> {}, handles |-> 0,
     running |-> "", procs |-> 0, cancelled |-> FALSE]

Init ==
    /\ rq = [r \in Reqs |-> Idle]
    /\ dirs = {}
    /\ fs = << >>
    /\ health = NoHealthReply

Set(r, rec) == rq' = [rq EXCEPT ![r] = rec]

Logged(rec, e) == [rec EXCEPT !.log = Append(@, e)]

\* the workspaces a request holds: created by it and not yet handed to RemoveAll
Owned(rec) ==
    (IF rec.directory # "" /\ rec.pc \notin {"idle", "b_reply", "m_reply", "done"}
     THEN {rec.directory} ELSE {})
    \cup (IF rec.pc \in {"i_write", "i_convert", "i_read", "i_defer"} THEN {rec.imgDirectory} ELSE {})

\* a file access of request r at path p; others: the requests whose workspace p lies in
Access(r, e, k, p, d) ==
    [Event(e, k, p, d) EXCEPT !.others = {q \in Reqs \ {r} : Len(p) > 1 /\ p[1] \in Owned(rq[q])}]

(***************************************************************************)
(* Inputs.                                                                 *)
(***************************************************************************)
File(n, d, f) == [name |-> n, data |-> d, folder |-> f]

TexData == Data("txt", 0, "orig")

\* names a caller can give a build input: plain, the configuration file's
\* name, below a folder, above the workspace, inside another directory
BuildNames ==
    {<<"main.tex">>, <<".latexmkrc">>, <<"sub", "a.tex">>, <<"..", "x.tex">>}
    \cup {<<"..", DirName("mergeFiles", 1), "0.pdf">>}

\* the build inputs: every name without a folder, and one file in a folder
\* that has the name of a file without one
BuildFiles ==
    {File(n, TexData, "") : n \in BuildNames}
    \cup {File(<<"main.tex">>, Data("txt", 0, "sub"), "sub")}

MergeData ==
    {Data("pdf", p, "orig") : p \in 0..MaxPages}
    \cup {Data("jpg", 0, "orig"), Data("png", 0, "orig"), Data("gif", 0, "orig"),
          Data("txt", 0, "orig"), NoData}

SeqsUpTo(S, n) == UNION {[1..k -> S] : k \in 0..n}

\* the merge inputs: any contents, the k-th file named "f<k>"
MergeInputs ==
    {[k \in DOMAIN ds |-> File(<<"f" \o ToString(k)>>, ds[k], "")] : ds \in SeqsUpTo(MergeData, MaxFiles)}

\* uuid.NewV4(): a random token.  It only names the output file inside the
\* request's own workspace, so one token stands for all of them.
NewV4 == {"uuid"}

(***************************************************************************)
(* The RPC is dispatched to a handler (BuildLatex, Merge).                 *)
(***************************************************************************)
Dispatch(r, o, fl, fe) ==
    /\ rq[r].pc = "idle"
    /\ Set(r, [Idle EXCEPT !.pc = IF o = "build" THEN "b_uuid" ELSE "m_uuid",
                           !.op = o, !.files = fl, !.forceEven = fe])
    /\ UNCHANGED <<dirs, fs>>

\* a request is served in the first free slot
FirstFree(r) == rq[r].pc = "idle" /\ \A q \in Reqs : q < r => rq[q].pc # "idle"

\* one request at a time, any input
Start(r) ==
    /\ \A q \in Reqs : rq[q].pc = "idle"
    /\ FirstFree(r)
    /\ \/ \E fl \in SeqsUpTo(BuildFiles, MaxFiles) : Dispatch(r, "build", fl, FALSE)
       \/ \E fl \in MergeInputs, fe \in BOOLEAN : Dispatch(r, "merge", fl, fe)

\* the inputs of the requests that run side by side
ConcBuildInputs ==
    {<<>>, <<File(<<"main.tex">>, TexData, "")>>}
    \cup {<<File(<<"..", d, "0.pdf">>, TexData, "")>> : d \in DirNames("mergeFiles")}

ConcMergeInputs == {<<File(<<"a">>, Data("pdf", 1, "orig"), "")>>}

\* any number of requests at a time
StartConc(r) ==
    /\ FirstFree(r)
    /\ \/ \E fl \in ConcBuildInputs : Dispatch(r, "build", fl, FALSE)
       \/ \E fl \in ConcMergeInputs : Dispatch(r, "merge", fl, FALSE)

\* the inputs of the requests that are cancelled or served next to health checks
EnvBuildInputs == {<<>>, <<File(<<"main.tex">>, TexData, "")>>}

EnvMergeInputs ==
    {<<File(<<"a">>, Data("pdf", 1, "orig"), "")>>, <<File(<<"a">>, Data("jpg", 0, "orig"), "")>>}

\* one request at a time, these inputs
StartEnv(r) ==
    /\ \A q \in Reqs : rq[q].pc = "idle"
    /\ FirstFree(r)
    /\ \/ \E fl \in EnvBuildInputs : Dispatch(r, "build", fl, FALSE)
       \/ \E fl \in EnvMergeInputs : Dispatch(r, "merge", fl, FALSE)

(***************************************************************************)
(* Leaving a pipeline function: `return final, err` with the deferred      *)
(* removal still to run when a directory was created.                      *)
(***************************************************************************)
Pre(o) == IF o = "build" THEN "b" ELSE "m"

\* a return that runs the deferred removal only when the pipeline succeeded
ReturnLeaking(rec, d, e) ==
    [rec EXCEPT !.final = d, !.err = e,
                !.pc = IF rec.directory = "" \/ e # NilErr THEN Pre(rec.op) \o "_reply" ELSE Pre(rec.op) \o "_defer"]

Return(rec, d, e) ==
    [rec EXCEPT !.final = d, !.err = e,
                !.pc = IF rec.directory = "" THEN Pre(rec.op) \o "_reply" ELSE Pre(rec.op) \o "_defer"]

(***************************************************************************)
(* Subprocesses.  Output() and Run() start the tool and wait for it: Exec  *)
(* is the start, the action of the tool is the return of the call, either  *)
(* at once because the tool could not be started or when the tool exits.   *)
(***************************************************************************)
\* the tool the pipeline is about to run at its position, "" if none
ToolAt(rec) ==
    IF rec.pc = "b_write" /\ rec.i > Len(rec.files) THEN "clean"
    ELSE IF rec.pc = "b_build" THEN "build"
    ELSE IF rec.pc = "i_convert" THEN "convert"
    ELSE IF rec.pc = "m_npages" THEN "npages"
    ELSE IF rec.pc = "m_append" THEN "append"
    ELSE IF rec.pc = "m_write" /\ rec.i > Len(rec.prepared) THEN "concat"
    ELSE ""

\* exec.Command(...) started by Output()/Run(): a subprocess of the request runs
Exec(r) ==
    /\ rq[r].running = ""
    /\ ToolAt(rq[r]) # ""
    /\ Set(r, [rq[r] EXCEPT !.running = ToolAt(rq[r]), !.procs = @ + 1])
    /\ UNCHANGED <<dirs, fs>>

\* a call that returns while the subprocess it started is still running
StoppedEarly(rec) == [rec EXCEPT !.running = ""]

\* the subprocess has exited and Output()/Run() returns
Stopped(rec) == [rec EXCEPT !.running = "", !.procs = @ - 1]

\* the caller cancels the RPC or its deadline expires while a subprocess of
\* the request runs: ctx is done.  No step of the pipelines reads ctx.
Cancel(r) ==
    /\ rq[r].running # ""
    /\ ~rq[r].cancelled
    /\ Set(r, [rq[r] EXCEPT !.cancelled = TRUE])
    /\ UNCHANGED <<dirs, fs>>

\* what a tool leaves on its standard output and error: nothing, or some text
ToolOutputs == {"", "text"}

(***************************************************************************)
(* buildLatexPDF                                                           *)
(***************************************************************************)
\* id, err := uuid.NewV4()
BuildUuid(r) ==
    /\ rq[r].pc = "b_uuid"
    /\ \/ \E u \in NewV4 : Set(r, [rq[r] EXCEPT !.id = u, !.pc = "b_tempdir"])
       \/ Set(r, Return(rq[r], NoData, Err("uuid", "", 0)))
    /\ UNCHANGED <<dirs, fs>>

\* ioutil.TempDir("", prefix): a directory that did not exist before.  The
\* random suffix carries no meaning, so the model takes the first unused one.
TempDirNames(prefix, ds) ==
    LET free == {n \in 1..NumSuffix : DirName(prefix, n) \notin ds} IN
    IF free = {} THEN {} ELSE {DirName(prefix, CHOOSE n \in free : \A m \in free : n <= m)}

BuildTempDir(r) ==
    /\ rq[r].pc = "b_tempdir"
    /\ \/ \E d \in TempDirNames("buildLatexPDF", dirs) :
             /\ dirs' = dirs \cup {d}
             /\ Set(r, [rq[r] EXCEPT !.directory = d, !.created = @ \cup {d}, !.pc = "b_check"])
       \/ /\ Set(r, Return(rq[r], NoData, IOErr))
          /\ dirs' = dirs
    /\ fs' = fs

\* if len(files) == 0
BuildCheck(r) ==
    /\ rq[r].pc = "b_check"
    /\ IF Len(rq[r].files) = 0
       THEN Set(r, Return(rq[r], NoData, Err("must provide one or more files", "", 0)))
       ELSE Set(r, [rq[r] EXCEPT !.pc = "b_settings"])
    /\ UNCHANGED <<dirs, fs>>

\* copyLatexSettings(directory): os.Create, dest.Write, no Close
copyLatexSettings(r) ==
    /\ rq[r].pc = "b_settings"
    /\ LET p == Join(rq[r].directory, <<".latexmkrc">>) IN
       \/ /\ Writable(p, dirs)
          /\ fs' = Put(fs, p, latexMakeConfig)
          /\ Set(r, [rq[r] EXCEPT !.handles = @ + 1, !.i = 1, !.pc = "b_write"])
       \/ /\ Writable(p, dirs)
          /\ fs' = Put(fs, p, NoData)
          /\ Set(r, Return([rq[r] EXCEPT !.handles = @ + 1], NoData, IOErr))
       \/ /\ fs' = fs
          /\ Set(r, Return(rq[r], NoData, IOErr))
    /\ dirs' = dirs

\* for _, f := range files { ioutil.WriteFile(directory+"/"+f.Name, f.Data, ...) }
BuildWriteFile(r) ==
    /\ rq[r].pc = "b_write"
    /\ rq[r].i <= Len(rq[r].files)
    /\ LET f == rq[r].files[rq[r].i]
           p == Join(rq[r].directory, f.name) IN
       \/ /\ Writable(p, dirs)
          /\ fs' = Put(fs, p, f.data)
          /\ Set(r, Logged([rq[r] EXCEPT !.i = @ + 1], Access(r, "write", rq[r].i, p, f.data)))
       \/ /\ fs' = fs
          /\ Set(r, Return(rq[r], NoData, IOErr))
    /\ dirs' = dirs

\* the exit statuses a tool run is modelled with
ExitStatuses == {0, 1}

\* the configuration latexmk reads in its working directory
ConfigAt(f, directory) ==
    IF <<directory, ".latexmkrc">> \in DOMAIN f THEN f[<<directory, ".latexmkrc">>] ELSE NoData

\* a clean pass whose exit status is not looked at
BuildCleanUnchecked(r) ==
    /\ rq[r].pc = "b_write"
    /\ rq[r].i > Len(rq[r].files)
    /\ LET e == Event("clean", 0, <<rq[r].directory>>, ConfigAt(fs, rq[r].directory)) IN
       \/ /\ rq[r].running = "clean"
          /\ \E o \in ToolOutputs, c \in ExitStatuses :
                Set(r, [Logged(Stopped(rq[r]), Ran(e, o, c)) EXCEPT !.pc = "b_build"])
       \/ /\ rq[r].running = ""
          /\ Set(r, Return(Logged(rq[r], NotStarted(e)), NoData, StartErr))
    /\ UNCHANGED <<dirs, fs>>

\* clean := exec.Command("latexmk", "-C"); out, err := clean.Output()
BuildClean(r) ==
    /\ rq[r].pc = "b_write"
    /\ rq[r].i > Len(rq[r].files)
    /\ LET e == Event("clean", 0, <<rq[r].directory>>, ConfigAt(fs, rq[r].directory)) IN
       \/ /\ rq[r].running = "clean"
          /\ \E o \in ToolOutputs :
                \/ Set(r, [Logged(Stopped(rq[r]), Ran(e, o, 0)) EXCEPT !.pc = "b_build"])
                \/ \E c \in ExitStatuses \ {0} :
                      Set(r, Return(Logged(Stopped(rq[r]), Ran(e, o, c)), NoData, ExitErr(c)))
       \/ /\ rq[r].running = ""
          /\ Set(r, Return(Logged(rq[r], NotStarted(e)), NoData, StartErr))
    /\ UNCHANGED <<dirs, fs>>

\* an output file name that does not follow the identifier of the request
ResultFileFixed(rec) == <<rec.directory, "output.pdf">>

\* resultFileName := id.String() + ".pdf", below the directory
ResultFile(rec) == <<rec.directory, rec.id \o ".pdf">>

\* fmt.Sprintf("-jobname=%s", id): the name the engine gives its output
JobName(rec) == rec.id

\* a build that is run again when it exited non-zero
BuildRunRetrying(r) ==
    /\ rq[r].pc = "b_build"
    /\ LET e == Event("build", 0, <<rq[r].directory, JobName(rq[r])>>, ConfigAt(fs, rq[r].directory)) IN
       \/ /\ rq[r].running = "build"
          /\ \E o \in ToolOutputs :
                \/ /\ Set(r, [Logged(Stopped(rq[r]), Ran(e, o, 0)) EXCEPT !.pc = "b_read"])
                   /\ fs' = Put(fs, <<rq[r].directory, JobName(rq[r]) \o ".pdf">>, BuiltPDF)
                \/ /\ \E c \in ExitStatuses \ {0} : Set(r, Logged(Stopped(rq[r]), Ran(e, o, c)))
                   /\ fs' = fs
       \/ /\ rq[r].running = ""
          /\ Set(r, Return(Logged(rq[r], NotStarted(e)), NoData, StartErr))
          /\ fs' = fs
    /\ dirs' = dirs

\* cmd := exec.Command("latexmk", "-jobname=<id>"); out, err = cmd.Output()
\* The engine run in cmd.Dir writes <jobname>.pdf there.
BuildRun(r) ==
    /\ rq[r].pc = "b_build"
    /\ LET e == Event("build", 0, <<rq[r].directory, JobName(rq[r])>>, ConfigAt(fs, rq[r].directory)) IN
       \/ /\ rq[r].running = "build"
          /\ \E o \in ToolOutputs :
                \/ /\ Set(r, [Logged(Stopped(rq[r]), Ran(e, o, 0)) EXCEPT !.pc = "b_read"])
                   /\ fs' = Put(fs, <<rq[r].directory, JobName(rq[r]) \o ".pdf">>, BuiltPDF)
                \/ /\ \E c \in ExitStatuses \ {0} :
                         Set(r, Return(Logged(Stopped(rq[r]), Ran(e, o, c)), NoData, ExitErr(c)))
                   /\ fs' = fs
       \/ /\ rq[r].running = ""
          /\ Set(r, Return(Logged(rq[r], NotStarted(e)), NoData, StartErr))
          /\ fs' = fs
    /\ dirs' = dirs

\* ioutil.ReadFile(path): the bytes, or an error with the bytes read so far
ReadFile(f, p) ==
    IF p \notin DOMAIN f THEN {<<NoData, IOErr>>}
    ELSE {<<f[p], NilErr>>, <<NoData, IOErr>>}
         \cup (IF IsEmpty(f[p]) THEN {} ELSE {<<Partial(f[p]), IOErr>>})

\* return ioutil.ReadFile(directory + "/" + resultFileName)
BuildRead(r) ==
    /\ rq[r].pc = "b_read"
    /\ \E res \in ReadFile(fs, ResultFile(rq[r])) :
          Set(r, Return(Logged(rq[r], Access(r, "read", 0, ResultFile(rq[r]), res[1])), res[1], res[2]))
    /\ UNCHANGED <<dirs, fs>>

\* a deferred removal whose failure becomes the error of the pipeline
BuildReleasePropagating(r) ==
    /\ rq[r].pc = "b_defer"
    /\ \/ /\ dirs' = dirs \ {rq[r].directory}
          /\ fs' = RemoveAll(fs, rq[r].directory)
          /\ Set(r, [rq[r] EXCEPT !.pc = "b_reply"])
       \/ /\ UNCHANGED <<dirs, fs>>
          /\ Set(r, Logged([rq[r] EXCEPT !.pc = "b_reply", !.err = IOErr],
                           Event("remove failed", 0, <<rq[r].directory>>, NoData)))

\* defer func(path string) { err := os.RemoveAll(path); if err != nil { log } }(directory)
BuildRelease(r) ==
    /\ rq[r].pc = "b_defer"
    /\ \/ /\ dirs' = dirs \ {rq[r].directory}
          /\ fs' = RemoveAll(fs, rq[r].directory)
          /\ Set(r, [rq[r] EXCEPT !.pc = "b_reply"])
       \/ /\ UNCHANGED <<dirs, fs>>
          /\ Set(r, Logged([rq[r] EXCEPT !.pc = "b_reply"], Event("remove failed", 0, <<rq[r].directory>>, NoData)))

\* the text of a note: that of an error, or a fixed text
Note(text) == Err(text, "", 0)

\* a handler that hands the pipeline's error to the RPC layer
FileReplyFailing(final, err, note) ==
    [data |-> final, success |-> err = NilErr, note |-> IF err # NilErr THEN err ELSE Note(note),
     rpcErr |-> err, set |-> TRUE]

\* a handler that leaves the note of a successful request empty
FileReplyNoNote(final, err, note) ==
    [data |-> final, success |-> err = NilErr, note |-> IF err # NilErr THEN err ELSE Note(""),
     rpcErr |-> NilErr, set |-> TRUE]

\* note := "... successful"; if err != nil { note = err.Error() }
\* reply := &pb.FileReply{Data: final, Success: err == nil, Note: note}; return reply, nil
FileReply(final, err, note) ==
    [data |-> final, success |-> err = NilErr, note |-> IF err # NilErr THEN err ELSE Note(note),
     rpcErr |-> NilErr, set |-> TRUE]

\* server.BuildLatex after buildLatexPDF returned
BuildLatex(r) ==
    /\ rq[r].pc = "b_reply"
    /\ Set(r, [rq[r] EXCEPT !.reply = FileReply(rq[r].final, rq[r].err, "build successful"), !.pc = "done"])
    /\ UNCHANGED <<dirs, fs>>

(***************************************************************************)
(* mergeFiles                                                              *)
(***************************************************************************)
\* id, err := uuid.NewV4()
MergeUuid(r) ==
    /\ rq[r].pc = "m_uuid"
    /\ \/ \E u \in NewV4 : Set(r, [rq[r] EXCEPT !.id = u, !.pc = "m_tempdir"])
       \/ Set(r, Return(rq[r], NoData, Err("uuid", "", 0)))
    /\ UNCHANGED <<dirs, fs>>

\* directory, err := ioutil.TempDir("", "mergeFiles")
MergeTempDir(r) ==
    /\ rq[r].pc = "m_tempdir"
    /\ \/ \E d \in TempDirNames("mergeFiles", dirs) :
             /\ dirs' = dirs \cup {d}
             /\ Set(r, [rq[r] EXCEPT !.directory = d, !.created = @ \cup {d}, !.i = 1, !.pc = "m_classify"])
       \/ /\ Set(r, Return(rq[r], NoData, IOErr))
          /\ dirs' = dirs
    /\ fs' = fs

\* the formats filetype's matchers recognise (of which the model has four)
Recognised == {"pdf", "jpg", "png", "gif"}

\* filetype.Match(buf): <<extension, error>>.  An empty buffer is an error; for
\* bytes no matcher recognises the type is Unknown, and whether an error comes
\* with it depends on the release of the library.
Match(d) ==
    IF IsEmpty(d) THEN {<<"unknown", Err("Empty buffer", "", 0)>>}
    ELSE IF d.magic \in Recognised THEN {<<d.magic, NilErr>>}
    ELSE {<<"unknown", NilErr>>, <<"unknown", Err("Unknown buffer type", "", 0)>>}

\* the body of `for _, f := range files` up to the call of imageToPDF
MergeClassify(r) ==
    /\ rq[r].pc = "m_classify"
    /\ rq[r].i <= Len(rq[r].files)
    /\ LET f == rq[r].files[rq[r].i] IN
       \E m \in Match(f.data) :
          LET kind == m[1]
              unknown == m[2]
              rec == Logged(rq[r], Event("classify", rq[r].i, f.name, f.data)) IN
          IF unknown # NilErr
          THEN Set(r, Return(rec, NoData, Err("file type unsupported", f.name[1], 0)))
          ELSE IF kind = "pdf"
          THEN Set(r, [rec EXCEPT !.prepared = Append(@, f.data), !.i = @ + 1])
          ELSE IF kind \in {"jpg", "png"}
          THEN Set(r, [rec EXCEPT !.pc = "i_uuid", !.imgId = "", !.imgDirectory = "",
                                  !.pdf = NoData, !.imgErr = NilErr])
          ELSE Set(r, [rec EXCEPT !.i = @ + 1])
    /\ UNCHANGED <<dirs, fs>>

(***************************************************************************)
(* imageToPDF, called for file i of the merge                              *)
(***************************************************************************)
\* a return from imageToPDF that runs the deferred removal only on success
ImgReturnLeaking(rec, d, e) ==
    [rec EXCEPT !.pdf = d, !.imgErr = e,
                !.pc = IF rec.imgDirectory = "" \/ e # NilErr THEN "i_ret" ELSE "i_defer"]

\* imageToPDF's `return pdf, err`, with the deferred removal still to run
\* when its directory was created
ImgReturn(rec, d, e) ==
    [rec EXCEPT !.pdf = d, !.imgErr = e,
                !.pc = IF rec.imgDirectory = "" THEN "i_ret" ELSE "i_defer"]

ImageUuid(r) ==
    /\ rq[r].pc = "i_uuid"
    /\ \/ \E u \in NewV4 : Set(r, [rq[r] EXCEPT !.imgId = u, !.pc = "i_tempdir"])
       \/ Set(r, ImgReturn(rq[r], NoData, Err("uuid", "", 0)))
    /\ UNCHANGED <<dirs, fs>>

ImageTempDir(r) ==
    /\ rq[r].pc = "i_tempdir"
    /\ \/ \E d \in TempDirNames("imageToPDF", dirs) :
             /\ dirs' = dirs \cup {d}
             /\ Set(r, [rq[r] EXCEPT !.imgDirectory = d, !.created = @ \cup {d}, !.pc = "i_write"])
       \/ /\ Set(r, ImgReturn(rq[r], NoData, IOErr))
          /\ dirs' = dirs
    /\ fs' = fs

\* ioutil.WriteFile(directory+"/img", file, os.ModePerm)
ImageWriteFile(r) ==
    /\ rq[r].pc = "i_write"
    /\ LET p == Join(rq[r].imgDirectory, <<"img">>)
           d == rq[r].files[rq[r].i].data IN
       \/ /\ Writable(p, dirs)
          /\ fs' = Put(fs, p, d)
          /\ Set(r, Logged([rq[r] EXCEPT !.pc = "i_convert"], Access(r, "write img", rq[r].i, p, d)))
       \/ /\ fs' = fs
          /\ Set(r, ImgReturn(rq[r], NoData, IOErr))
    /\ dirs' = dirs

ImgResultFile(rec) == <<rec.imgDirectory, rec.imgId \o ".pdf">>

\* the single page the conversion tool renders from the image
Converted(d) == Data("pdf", 1, d.magic)

\* cmd.Stderr = &stderr; err = cmd.Run()
\* if err != nil { return pdf, fmt.Errorf(err.Error() + ": " + stderr.String()) }
\* stderr: what the tool wrote to its standard error
ImageConvert(r) ==
    /\ rq[r].pc = "i_convert"
    /\ LET src == <<rq[r].imgDirectory, "img">>
           e == Access(r, "convert", rq[r].i, src, NoData) IN
       \/ /\ rq[r].running = "convert"
          /\ \E stderr \in ToolOutputs :
                \/ /\ src \in DOMAIN fs
                   /\ fs' = Put(fs, ImgResultFile(rq[r]), Converted(fs[src]))
                   /\ Set(r, [Logged(Stopped(rq[r]), Ran(e, stderr, 0)) EXCEPT !.pc = "i_read"])
                \/ /\ fs' = fs
                   /\ \E c \in ExitStatuses \ {0} :
                         Set(r, ImgReturn(Logged(Stopped(rq[r]), Ran(e, stderr, c)), NoData,
                                          Err("exit status", stderr, c)))
       \/ /\ rq[r].running = ""
          /\ fs' = fs
          /\ Set(r, ImgReturn(Logged(rq[r], NotStarted(e)), NoData, StartErr))
    /\ dirs' = dirs

\* return ioutil.ReadFile(directory + "/" + resultFileName)
ImageRead(r) ==
    /\ rq[r].pc = "i_read"
    /\ \E res \in ReadFile(fs, ImgResultFile(rq[r])) :
          Set(r, ImgReturn(Logged(rq[r], Access(r, "read img", rq[r].i, ImgResultFile(rq[r]), res[1])), res[1], res[2]))
    /\ UNCHANGED <<dirs, fs>>

\* imageToPDF's deferred os.RemoveAll(directory)
ImageRelease(r) ==
    /\ rq[r].pc = "i_defer"
    /\ \/ /\ dirs' = dirs \ {rq[r].imgDirectory}
          /\ fs' = RemoveAll(fs, rq[r].imgDirectory)
          /\ Set(r, [rq[r] EXCEPT !.pc = "i_ret"])
       \/ /\ UNCHANGED <<dirs, fs>>
          /\ Set(r, Logged([rq[r] EXCEPT !.pc = "i_ret"], Event("remove failed", 0, <<rq[r].imgDirectory>>, NoData)))

\* converted, err := imageToPDF(f.Data)
\* if err != nil { return merged, fmt.Errorf("failed to convert image %s to pdf: %s", f.Name, err) }
\* prepared = append(prepared, converted)
MergeConverted(r) ==
    /\ rq[r].pc = "i_ret"
    /\ LET f == rq[r].files[rq[r].i]
           rec == [rq[r] EXCEPT !.imgDirectory = ""] IN
       IF rq[r].imgErr # NilErr
       THEN Set(r, Return(rec, NoData, Err("failed to convert image to pdf", f.name[1], rq[r].imgErr.code)))
       ELSE Set(r, [rec EXCEPT !.prepared = Append(@, rq[r].pdf), !.i = @ + 1, !.pc = "m_classify"])
    /\ UNCHANGED <<dirs, fs>>

(***************************************************************************)
(* mergeFiles, second loop: write, parity, then the concatenation          *)
(***************************************************************************)
\* the end of the first loop: outputFileName, args := ..., i := 0
MergeArgs(r) ==
    /\ rq[r].pc = "m_classify"
    /\ rq[r].i > Len(rq[r].files)
    /\ Set(r, [rq[r] EXCEPT !.args = <<>>, !.i = 1, !.pc = "m_write"])
    /\ UNCHANGED <<dirs, fs>>

\* fmt.Sprintf("%d.pdf", i) for the Go index i = k - 1
pdfFileName(k) == ToString(k - 1) \o ".pdf"

\* what follows the parity step of document i: args = append(args, pdfFileName)
Appended(rec) == [rec EXCEPT !.args = Append(@, pdfFileName(rec.i)), !.i = @ + 1, !.pc = "m_write"]

\* the parity step taken whatever the flag says
AfterWriteAlways(rec) == [rec EXCEPT !.pc = "m_npages"]

\* if forceEven { page count, blank page }; args = append(args, pdfFileName)
AfterWrite(rec) == IF rec.forceEven THEN [rec EXCEPT !.pc = "m_npages"] ELSE Appended(rec)

\* ioutil.WriteFile(where, p, os.ModePerm), and the test of forceEven
MergeWriteFile(r) ==
    /\ rq[r].pc = "m_write"
    /\ rq[r].i <= Len(rq[r].prepared)
    /\ LET p == Join(rq[r].directory, <<pdfFileName(rq[r].i)>>)
           d == rq[r].prepared[rq[r].i] IN
       \/ /\ Writable(p, dirs)
          /\ fs' = Put(fs, p, d)
          /\ Set(r, AfterWrite(Logged(rq[r], Access(r, "write", rq[r].i, p, d))))
       \/ /\ fs' = fs
          /\ Set(r, Return(rq[r], NoData, IOErr))
    /\ dirs' = dirs

\* the parity test inverted
isOddInverted(pageCount) == pageCount % 2 = 0

\* pageCount%2 == 1
isOdd(pageCount) == pageCount % 2 = 1

\* strconv.Atoi(strings.TrimSpace(out)): <<number, ok>>; the decimal numbers
\* of up to the largest page count a document of the model has are parsed
Atoi(s) ==
    LET ns == {n \in 0..(MaxPages + BlankPages) : ToString(n) = s} IN
    IF ns = {} THEN <<0, FALSE>> ELSE <<CHOOSE n \in ns : TRUE, TRUE>>

\* what qpdf --show-npages prints for a file: its page count, or, for a file
\* it cannot make sense of, something else
ShowNPages(d) == {ToString(d.pages), "text"}

\* qpdf --show-npages, strconv.Atoi(strings.TrimSpace(out)), isOdd
MergePageCount(r) ==
    /\ rq[r].pc = "m_npages"
    /\ rq[r].running = "npages"
    /\ LET p == <<rq[r].directory, pdfFileName(rq[r].i)>>
           e == Access(r, "npages", rq[r].i, p, IF p \in DOMAIN fs THEN fs[p] ELSE NoData) IN
       \/ /\ p \in DOMAIN fs
          /\ \E out \in ShowNPages(fs[p]) :
                LET rec == Logged(Stopped(rq[r]), Ran(e, out, 0))
                    pageCount == Atoi(out)[1] IN
                IF ~Atoi(out)[2]
                THEN Set(r, Return(rec, NoData, Err("show-npages output to int", "", 0)))
                ELSE IF isOdd(pageCount)
                THEN Set(r, [rec EXCEPT !.pageCount = pageCount, !.pc = "m_append"])
                ELSE Set(r, Appended([rec EXCEPT !.pageCount = pageCount]))
       \/ \E c \in ExitStatuses \ {0} :
             Set(r, Return(Logged(Stopped(rq[r]), Ran(e, "", c)), NoData, Err("exec qpdf page count", "", c)))
    /\ UNCHANGED <<dirs, fs>>

\* a blank-page append whose exit status is not looked at
MergeAppendBlankUnchecked(r) ==
    /\ rq[r].pc = "m_append"
    /\ rq[r].running = "append"
    /\ LET p == <<rq[r].directory, pdfFileName(rq[r].i)>>
           e == Access(r, "append", rq[r].i, p, IF p \in DOMAIN fs THEN fs[p] ELSE NoData) IN
       \/ /\ p \in DOMAIN fs
          /\ fs' = Put(fs, p, [fs[p] EXCEPT !.pages = @ + BlankPages])
          /\ Set(r, Appended(Logged(Stopped(rq[r]), e)))
       \/ /\ fs' = fs
          /\ \E c \in ExitStatuses \ {0} : Set(r, Appended(Logged(Stopped(rq[r]), Ran(e, "", c))))
    /\ dirs' = dirs

\* qpdf --replace-input i.pdf --pages i.pdf blank.pdf --
MergeAppendBlank(r) ==
    /\ rq[r].pc = "m_append"
    /\ rq[r].running = "append"
    /\ LET p == <<rq[r].directory, pdfFileName(rq[r].i)>>
           e == Access(r, "append", rq[r].i, p, IF p \in DOMAIN fs THEN fs[p] ELSE NoData)
           rec == Logged(Stopped(rq[r]), e) IN
       \/ /\ p \in DOMAIN fs
          /\ fs' = Put(fs, p, [fs[p] EXCEPT !.pages = @ + BlankPages])
          /\ Set(r, Appended(rec))
       \/ /\ fs' = fs
          /\ \E c \in ExitStatuses \ {0} :
                Set(r, Return(Logged(Stopped(rq[r]), Ran(e, "", c)), NoData,
                              Err("adding blank to odd numberd pdf", "", c)))
    /\ dirs' = dirs

\* the exit statuses the concatenation is modelled with
ConcatStatuses == {0, 2, 3, 30}

RECURSIVE Digits(_)
\* the decimal digits of n, as fmt prints them
Digits(n) == IF n < 10 THEN <<n>> ELSE Append(Digits(n \div 10), n % 10)

\* strings.Contains(err.Error(), "exit status 3")
ContainsExitStatus3(e) == e.msg = "exit status" /\ Head(Digits(e.code)) = 3

RECURSIVE SumPages(_)
SumPages(ds) == IF ds = <<>> THEN 0 ELSE Head(ds).pages + SumPages(Tail(ds))

\* the contents of the files named by args, in the order of args
Docs(f, directory, args) ==
    [k \in 1..Len(args) |-> IF <<directory, args[k]>> \in DOMAIN f THEN f[<<directory, args[k]>>] ELSE NoData]

\* a concatenation that does not wait for the end of the loop over the documents
MergeConcatInLoop(r) ==
    /\ rq[r].pc = "m_write"
    /\ LET docs == Docs(fs, rq[r].directory, rq[r].args)
           ev == [Event("concat", 0, <<rq[r].directory>>, NoData) EXCEPT !.docs = docs] IN
       /\ rq[r].running = ""
       /\ fs' = fs
       /\ Set(r, Return(Logged(rq[r], NotStarted(ev)), NoData, Err("failed merging pdf files", "", 0)))
    /\ dirs' = dirs

\* cmd := exec.Command("qpdf", "--empty", out, "--pages", args..., "--"); cmd.Run()
MergeConcat(r) ==
    /\ rq[r].pc = "m_write"
    /\ rq[r].i > Len(rq[r].prepared)
    /\ LET docs == Docs(fs, rq[r].directory, rq[r].args)
           ev == [Event("concat", 0, <<rq[r].directory>>, NoData) EXCEPT !.docs = docs] IN
       \/ /\ rq[r].running = "concat"
          /\ \E c \in ConcatStatuses :
                LET e == IF c = 0 THEN NilErr ELSE ExitErr(c)
                    rec == Logged(Stopped(rq[r]), Ran(ev, "", c)) IN
                /\ fs' = IF c \in {0, 3}
                         THEN Put(fs, ResultFile(rq[r]), Data("pdf", SumPages(docs), "qpdf"))
                         ELSE fs
                /\ IF e # NilErr /\ ~ContainsExitStatus3(e)
                   THEN Set(r, Return(rec, NoData, Err("failed merging pdf files", "", c)))
                   ELSE Set(r, [rec EXCEPT !.err = e, !.pc = "m_read"])
       \/ /\ rq[r].running = ""
          /\ fs' = fs
          /\ Set(r, Return(Logged(rq[r], NotStarted(ev)), NoData, Err("failed merging pdf files", "", 0)))
    /\ dirs' = dirs

\* a read-back whose error is not looked at
MergeReadUnchecked(r) ==
    /\ rq[r].pc = "m_read"
    /\ \E res \in ReadFile(fs, ResultFile(rq[r])) :
          Set(r, Return(Logged(rq[r], Access(r, "read", 0, ResultFile(rq[r]), res[1])), res[1], NilErr))
    /\ UNCHANGED <<dirs, fs>>

\* merged, err = ioutil.ReadFile(...); if err != nil { return merged, error }
MergeRead(r) ==
    /\ rq[r].pc = "m_read"
    /\ \E res \in ReadFile(fs, ResultFile(rq[r])) :
          LET rec == Logged(rq[r], Access(r, "read", 0, ResultFile(rq[r]), res[1])) IN
          IF res[2] # NilErr
          THEN Set(r, Return(rec, res[1], Err("failed reading produced PDF", "", 0)))
          ELSE Set(r, Return(rec, res[1], NilErr))
    /\ UNCHANGED <<dirs, fs>>

\* defer func(path string) { err := os.RemoveAll(path); if err != nil { log } }(directory)
MergeRelease(r) ==
    /\ rq[r].pc = "m_defer"
    /\ \/ /\ dirs' = dirs \ {rq[r].directory}
          /\ fs' = RemoveAll(fs, rq[r].directory)
          /\ Set(r, [rq[r] EXCEPT !.pc = "m_reply"])
       \/ /\ UNCHANGED <<dirs, fs>>
          /\ Set(r, Logged([rq[r] EXCEPT !.pc = "m_reply"], Event("remove failed", 0, <<rq[r].directory>>, NoData)))

\* server.Merge after mergeFiles returned
Merge(r) ==
    /\ rq[r].pc = "m_reply"
    /\ Set(r, [rq[r] EXCEPT !.reply = FileReply(rq[r].final, rq[r].err, "merge successful"), !.pc = "done"])
    /\ UNCHANGED <<dirs, fs>>

(***************************************************************************)
(* Health                                                                  *)
(***************************************************************************)
\* a health check that reports the failure of a request
HealthUnlessFailed ==
    /\ health' = [healthy |-> \A r \in Reqs : rq[r].pc = "done" => rq[r].reply.success,
                  rpcErr |-> NilErr, set |-> TRUE]
    /\ UNCHANGED <<rq, dirs, fs>>

\* return &pb.HealthReply{Healthy: true}, nil
Health ==
    /\ health' = [healthy |-> TRUE, rpcErr |-> NilErr, set |-> TRUE]
    /\ UNCHANGED <<rq, dirs, fs>>

BuildStep(r) ==
    \/ BuildUuid(r)
    \/ BuildTempDir(r)
    \/ BuildCheck(r)
    \/ copyLatexSettings(r)
    \/ BuildWriteFile(r)
    \/ BuildClean(r)
    \/ BuildRun(r)
    \/ BuildRead(r)
    \/ BuildRelease(r)
    \/ BuildLatex(r)

MergeStep(r) ==
    \/ MergeUuid(r)
    \/ MergeTempDir(r)
    \/ MergeClassify(r)
    \/ MergeArgs(r)
    \/ MergeWriteFile(r)
    \/ MergeConcat(r)
    \/ MergeRead(r)
    \/ MergeRelease(r)
    \/ Merge(r)

ImageStep(r) ==
    \/ ImageUuid(r)
    \/ ImageTempDir(r)
    \/ ImageWriteFile(r)
    \/ ImageConvert(r)
    \/ ImageRead(r)
    \/ ImageRelease(r)
    \/ MergeConverted(r)

ParityStep(r) ==
    \/ MergePageCount(r)
    \/ MergeAppendBlank(r)

ProcessStep(r) ==
    \/ Exec(r)
    \/ Cancel(r)

\* a step of the request in slot r when one request is served at a time
Step(r) == Start(r) \/ BuildStep(r) \/ MergeStep(r) \/ ImageStep(r) \/ ParityStep(r) \/ Exec(r)

\* a step of the request in slot r when requests are served side by side
StepConc(r) == StartConc(r) \/ BuildStep(r) \/ MergeStep(r) \/ Exec(r)

\* a step of the request in slot r with the cancellation of its context
StepEnv(r) == StartEnv(r) \/ BuildStep(r) \/ MergeStep(r) \/ ImageStep(r) \/ ProcessStep(r)

\* one request, every input
Next ==
    /\ \E r \in Reqs : Step(r)
    /\ health' = health

\* requests side by side; their inputs are PDF files merged without force_even
NextConc ==
    /\ \E r \in Reqs : StepConc(r)
    /\ health' = health

\* one request with what goes on around it: health checks at any moment, and
\* the cancellation of the request while a subprocess of it runs
NextEnv ==
    \/ /\ \E r \in Reqs : StepEnv(r)
       /\ health' = health
    \/ Health

Spec == Init /\ [][Next]_vars

SpecConc == Init /\ [][NextConc]_vars

SpecEnv == Init /\ [][NextEnv]_vars

(***************************************************************************)
(* Properties                                                              *)
(***************************************************************************)
HasEvent(rec, e) == \E k \in DOMAIN rec.log : rec.log[k].ev = e

ToolEvents == {"clean", "build", "convert", "npages", "append", "concat"}

\* the removal of directory d by this request failed (and was logged)
RemoveFailed(rec, d) ==
    \E k \in DOMAIN rec.log : rec.log[k].ev = "remove failed" /\ rec.log[k].path = <<d>>

\* C1, as the specification states it: once the RPC has returned, no workspace directory the
\* request created exists any more, on every exit path.
C1_CleanupAlways ==
    \A r \in Reqs : rq[r].pc = "done" => rq[r].created \cap dirs = {}

\* C1, amended: once the RPC has returned, a workspace directory the request
\* created exists only if its removal was attempted and failed (the failure
\* being logged); on every exit path every other created directory is gone.
C1_CleanupUnlessRemovalFailed ==
    \A r \in Reqs :
        rq[r].pc = "done" =>
            \A d \in rq[r].created : d \in dirs => RemoveFailed(rq[r], d)

\* a merge that converted an image failed later; both its workspaces are gone
C1_Witness ==
    \E r \in Reqs :
        /\ rq[r].pc = "done"
        /\ Cardinality(rq[r].created) = 2
        /\ rq[r].created \cap dirs = {}
        /\ ~rq[r].reply.success

\* C2: the workspaces held at the same time by different requests are
\* pairwise distinct, and no file access of a request lies inside a workspace
\* that another request holds at that moment.
C2_Isolation ==
    \A r1, r2 \in Reqs :
        r1 # r2 =>
            /\ Owned(rq[r1]) \cap Owned(rq[r2]) = {}
            /\ \A k \in DOMAIN rq[r1].log : rq[r1].log[k].others = {}

\* C3: a handler that has returned has produced a reply and a nil RPC error,
\* and the reply has success = false exactly when the pipeline returned an error.
C3_ReplyNotRpcError ==
    \A r \in Reqs :
        rq[r].pc = "done" =>
            /\ rq[r].reply.set
            /\ rq[r].reply.rpcErr = NilErr
            /\ (~rq[r].reply.success <=> rq[r].err # NilErr)

\* a pipeline failure after the workspace was created, answered by a reply
C3_Witness ==
    \E r \in Reqs :
        /\ rq[r].pc = "done"
        /\ rq[r].err # NilErr
        /\ rq[r].directory # ""
        /\ rq[r].reply.set /\ ~rq[r].reply.success

\* C4: a reply with success = false carries no data.
C4_FailureHasNoData ==
    \A r \in Reqs : rq[r].reply.set /\ ~rq[r].reply.success => IsEmpty(rq[r].reply.data)

\* C5: a request with zero files whose workspace could be set up is answered
\* with success = false and the note that one or more files are required, and
\* has run no external tool.
C5_EmptyInputRejected ==
    \A r \in Reqs :
        rq[r].pc = "done" /\ Len(rq[r].files) = 0 /\ rq[r].directory # "" =>
            /\ ~rq[r].reply.success
            /\ rq[r].reply.note.msg = "must provide one or more files"
            /\ \A k \in DOMAIN rq[r].log : rq[r].log[k].ev \notin ToolEvents

\* C6: a request with zero files never creates a workspace directory.
C6_EmptyInputNoWorkspace ==
    \A r \in Reqs : rq[r].op # "none" /\ Len(rq[r].files) = 0 => rq[r].created = {}

Unsupported(f) == f.data.magic \notin {"pdf", "jpg", "png"}

Classified(rec, k) == \E j \in DOMAIN rec.log : rec.log[j].ev = "classify" /\ rec.log[j].i = k

\* C7: a merge that has classified a file whose content is not PDF, JPEG or
\* PNG returns success = false with a note naming such a file as unsupported,
\* and never runs the concatenation.
C7_ClassificationGate ==
    \A r \in Reqs :
        /\ rq[r].op = "merge"
        /\ rq[r].pc = "done"
        /\ \E k \in DOMAIN rq[r].files : Unsupported(rq[r].files[k]) /\ Classified(rq[r], k)
        => /\ ~rq[r].reply.success
           /\ rq[r].reply.note.msg = "file type unsupported"
           /\ \E k \in DOMAIN rq[r].files :
                 Unsupported(rq[r].files[k]) /\ rq[r].reply.note.name = rq[r].files[k].name[1]
           /\ ~HasEvent(rq[r], "concat")

\* the prepared form of an input: its bytes if a PDF, the converted bytes if an image
PreparedForm(f) == IF f.data.magic = "pdf" THEN f.data ELSE Converted(f.data)

\* C8: when the concatenation runs, its document list has one entry per input
\* file, and entry i is the file written from the prepared form of input i.
C8_OrderPreserved ==
    \A r \in Reqs :
        rq[r].op = "merge" /\ HasEvent(rq[r], "concat") =>
            /\ Len(rq[r].args) = Len(rq[r].files)
            /\ \A i \in DOMAIN rq[r].args :
                  /\ rq[r].args[i] = pdfFileName(i)
                  /\ \E k \in DOMAIN rq[r].log :
                        /\ rq[r].log[k].ev = "write"
                        /\ rq[r].log[k].i = i
                        /\ rq[r].log[k].path = <<rq[r].directory, pdfFileName(i)>>
                        /\ rq[r].log[k].data = PreparedForm(rq[r].files[i])

\* a prepared document after parity enforcement: one blank page more if odd
Evened(d) == IF d.pages % 2 = 1 THEN [d EXCEPT !.pages = @ + 1] ELSE d

\* C9: with force_even, every document the parity step is done with is its
\* prepared document with exactly one page appended if the page count was odd
\* and unchanged if it was even (zero included), hence has an even page
\* count; so has every document handed to the concatenation.
C9_ParityEnforced ==
    \A r \in Reqs :
        rq[r].op = "merge" /\ rq[r].forceEven =>
            /\ rq[r].pc \in {"m_write", "m_npages", "m_append"} =>
                  \A j \in 1..(rq[r].i - 1) :
                      LET p == <<rq[r].directory, pdfFileName(j)>> IN
                      /\ p \in DOMAIN fs
                      /\ fs[p] = Evened(rq[r].prepared[j])
                      /\ fs[p].pages % 2 = 0
            /\ \A k \in DOMAIN rq[r].log :
                  rq[r].log[k].ev = "concat" =>
                      /\ Len(rq[r].log[k].docs) = Len(rq[r].prepared)
                      /\ \A j \in DOMAIN rq[r].prepared :
                            /\ rq[r].log[k].docs[j] = Evened(rq[r].prepared[j])
                            /\ rq[r].log[k].docs[j].pages % 2 = 0

\* the concatenation got a document that was odd and one that was even and not empty
C9_Witness ==
    \E r \in Reqs :
        /\ rq[r].forceEven
        /\ HasEvent(rq[r], "concat")
        /\ \E j1, j2 \in DOMAIN rq[r].prepared :
              /\ rq[r].prepared[j1].pages % 2 = 1
              /\ rq[r].prepared[j2].pages = 2
        /\ \E k \in DOMAIN rq[r].log : rq[r].log[k].ev = "append"

\* C10: without force_even no page count and no blank-page append is run; with
\* force_even the page count of document i directly follows the write of
\* document i, an append directly follows the page count of its document, the
\* documents are taken in index order, and all of it precedes the concatenation.
C10_ParityGatedAndOrdered ==
    \A r \in Reqs :
        rq[r].op = "merge" =>
            LET l == rq[r].log IN
            /\ ~rq[r].forceEven => \A k \in DOMAIN l : l[k].ev \notin {"npages", "append"}
            /\ rq[r].forceEven =>
                  \A k \in DOMAIN l :
                      /\ l[k].ev = "npages" => k > 1 /\ l[k-1].ev = "write" /\ l[k-1].i = l[k].i
                      /\ l[k].ev = "append" => k > 1 /\ l[k-1].ev = "npages" /\ l[k-1].i = l[k].i
                      /\ l[k].ev = "write" /\ k < Len(l) => l[k+1].ev = "npages" /\ l[k+1].i = l[k].i
                      /\ l[k].ev = "write" /\ l[k].i > 1 =>
                            \E m \in 1..(k-1) : l[m].ev = "npages" /\ l[m].i = l[k].i - 1
                      /\ l[k].ev \in {"write", "npages", "append"} =>
                            \A m \in 1..(k-1) : l[m].ev # "concat"

\* a force_even merge of two documents reached the concatenation after an append
C10_Witness ==
    \E r \in Reqs :
        /\ rq[r].forceEven
        /\ HasEvent(rq[r], "concat")
        /\ HasEvent(rq[r], "append")
        /\ \E k \in DOMAIN rq[r].log : rq[r].log[k].ev = "npages" /\ rq[r].log[k].i = 2

\* the invocations of the concatenation tool by a request
ConcatRuns(rec) == {k \in DOMAIN rec.log : rec.log[k].ev = "concat"}

\* the outcomes of mergeFiles that lie behind the loop over the documents
BehindLoop == {"nil", "failed merging pdf files", "failed reading produced PDF"}

\* C11: a merge invokes the concatenation tool at most once; not at all while
\* it classifies, converts, writes or enforces parity; exactly once when it
\* has left the loop over the prepared documents behind it (reading the
\* output, or returned with an outcome from behind the loop), a single-file
\* input included; and every invocation comes after the write of every
\* prepared document.
C11_ConcatOnce ==
    \A r \in Reqs :
        rq[r].op = "merge" =>
            LET l == rq[r].log
                n == Cardinality(ConcatRuns(rq[r])) IN
            /\ n <= 1
            /\ \/ rq[r].pc \in {"m_uuid", "m_tempdir", "m_classify", "m_npages", "m_append",
                                 "i_uuid", "i_tempdir", "i_write", "i_convert", "i_read", "i_defer", "i_ret"}
               \/ rq[r].pc = "m_write"
               => n = 0
            /\ \/ rq[r].pc = "m_read"
               \/ rq[r].pc \in {"m_defer", "m_reply", "done"} /\ rq[r].err.msg \in BehindLoop
               => n = 1
            /\ \A k \in ConcatRuns(rq[r]) :
                  /\ Len(l[k].docs) = Len(rq[r].prepared)
                  /\ \A j \in DOMAIN rq[r].prepared :
                        \E m \in 1..(k-1) :
                            /\ l[m].ev = "write"
                            /\ l[m].i = j
                            /\ l[m].path = <<rq[r].directory, pdfFileName(j)>>

\* a merge of a single file succeeded with one invocation of the concatenation
C11_Witness ==
    \E r \in Reqs :
        /\ rq[r].op = "merge"
        /\ rq[r].pc = "done"
        /\ Len(rq[r].files) = 1
        /\ rq[r].reply.success
        /\ Cardinality(ConcatRuns(rq[r])) = 1
        /\ HasEvent(rq[r], "write")

\* C12: an invocation of the concatenation tool that exited with status 0 or
\* 3 lets the merge go on to read the output; every other exit status, and
\* every failure to start the tool, ends the merge with an error of merging,
\* answered with success = false and the merge-failure note.
C12_ExitStatusPolicy ==
    \A r \in Reqs :
        \A k \in ConcatRuns(rq[r]) :
            LET ev == rq[r].log[k] IN
            IF ev.started /\ ev.code \in {0, 3}
            THEN rq[r].err.msg # "failed merging pdf files"
            ELSE /\ rq[r].pc \in {"m_defer", "m_reply", "done"}
                 /\ rq[r].err.msg = "failed merging pdf files"
                 /\ rq[r].pc = "done" =>
                       /\ ~rq[r].reply.success
                       /\ rq[r].reply.note.msg = "failed merging pdf files"

\* the runs of tool e by a request
Runs(rec, e) == {k \in DOMAIN rec.log : rec.log[k].ev = e}

\* C13: in a build the clean pass and the build are each run at most once and
\* in the workspace of the request; the build is started only after a clean
\* pass that exited with status 0; after a clean pass that exited non-zero the
\* build is never started and the request ends with success = false.
C13_CleanBeforeBuild ==
    \A r \in Reqs :
        rq[r].op = "build" =>
            LET l == rq[r].log IN
            /\ Cardinality(Runs(rq[r], "clean")) <= 1
            /\ Cardinality(Runs(rq[r], "build")) <= 1
            /\ \A k \in Runs(rq[r], "clean") \cup Runs(rq[r], "build") :
                  l[k].path[1] = rq[r].directory /\ rq[r].directory \in rq[r].created
            /\ rq[r].running = "build" \/ Runs(rq[r], "build") # {} =>
                  \E m \in Runs(rq[r], "clean") :
                      /\ l[m].started /\ l[m].code = 0
                      /\ \A k \in Runs(rq[r], "build") : m < k
            /\ \A m \in Runs(rq[r], "clean") :
                  l[m].started /\ l[m].code # 0 =>
                      /\ Runs(rq[r], "build") = {}
                      /\ rq[r].running = ""
                      /\ rq[r].pc \in {"b_defer", "b_reply", "done"}
                      /\ rq[r].err # NilErr
                      /\ rq[r].pc = "done" => ~rq[r].reply.success

\* a build whose clean pass exited non-zero has been answered
C13_Witness ==
    \E r \in Reqs :
        /\ rq[r].op = "build"
        /\ rq[r].pc = "done"
        /\ \E m \in Runs(rq[r], "clean") : rq[r].log[m].started /\ rq[r].log[m].code # 0
        /\ ~rq[r].reply.success

\* the run of tool e by the request exited with status 0
RanOk(rec, e) == \E k \in Runs(rec, e) : rec.log[k].started /\ rec.log[k].code = 0

\* C14: in a build whose clean pass and build both exited with status 0, the
\* file read is <job name>.pdf in the workspace, the job name being the one
\* handed to the build engine; a reply with success = true carries exactly
\* the content of that file, and when the file could not be read in full the
\* reply has success = false.
C14_BuildOutput ==
    \A r \in Reqs :
        rq[r].op = "build" /\ RanOk(rq[r], "clean") /\ RanOk(rq[r], "build") =>
            LET l == rq[r].log
                job == l[CHOOSE k \in Runs(rq[r], "build") : TRUE].path[2]
                out == <<rq[r].directory, job \o ".pdf">> IN
            /\ \A k \in Runs(rq[r], "read") : l[k].path = out
            /\ rq[r].pc = "b_read" => out \in DOMAIN fs /\ fs[out] = BuiltPDF
            /\ rq[r].pc = "b_defer" =>
                  /\ out \in DOMAIN fs
                  /\ rq[r].err = NilErr => rq[r].final = fs[out]
                  /\ rq[r].final # fs[out] => rq[r].err # NilErr
            /\ rq[r].pc = "done" =>
                  /\ Runs(rq[r], "read") # {}
                  /\ rq[r].reply.success => rq[r].reply.data = BuiltPDF
                  /\ rq[r].reply.data # BuiltPDF => ~rq[r].reply.success

\* a build has been answered with the PDF the engine produced
C14_Witness ==
    \E r \in Reqs :
        /\ rq[r].op = "build"
        /\ rq[r].pc = "done"
        /\ RanOk(rq[r], "clean") /\ RanOk(rq[r], "build")
        /\ rq[r].reply.success
        /\ rq[r].reply.data = BuiltPDF

\* the place of an input file in the workspace: <directory>/<folder>/<name>
PlaceOf(directory, f) ==
    Join(directory, (IF f.folder = "" THEN <<>> ELSE <<f.folder>>) \o f.name)

\* C15: at the moment the clean pass is started, every input file of the build
\* exists at <workspace>/<folder>/<name> (at <workspace>/<name> when it has no
\* folder) with its content; so two files of the same name in different
\* folders are both there.
C15_Materialised ==
    \A r \in Reqs :
        rq[r].op = "build" /\ rq[r].running = "clean" =>
            \A j \in DOMAIN rq[r].files :
                LET p == PlaceOf(rq[r].directory, rq[r].files[j]) IN
                p \in DOMAIN fs /\ fs[p] = rq[r].files[j].data

\* C16: while the clean pass or the build runs, and when either has run, the
\* configuration file in the workspace holds exactly the fixed embedded
\* configuration, whatever the input files are.
C16_FixedConfiguration ==
    \A r \in Reqs :
        rq[r].op = "build" =>
            /\ rq[r].running \in {"clean", "build"} => ConfigAt(fs, rq[r].directory) = latexMakeConfig
            /\ \A k \in Runs(rq[r], "clean") \cup Runs(rq[r], "build") :
                  rq[r].log[k].started => rq[r].log[k].data = latexMakeConfig

\* C17: when the clean pass or the build of a request exited non-zero after
\* printing some text, the note of the reply carries that text next to the
\* exit status.
C17_DiagnosticNote ==
    \A r \in Reqs :
        rq[r].op = "build" /\ rq[r].pc = "done" =>
            \A k \in Runs(rq[r], "clean") \cup Runs(rq[r], "build") :
                LET ev == rq[r].log[k] IN
                ev.started /\ ev.code # 0 /\ ev.out # "" =>
                    /\ ~rq[r].reply.success
                    /\ rq[r].reply.note.name = ev.out

\* C18: once the context of a request is cancelled while a subprocess of it
\* runs, the call that waits for the subprocess returns only because the
\* subprocess was killed, and the request goes on to release its workspace:
\* it never returns with the subprocess having finished by itself.
C18_CancelTerminates ==
    [][\A r \in Reqs :
          rq[r].cancelled /\ rq[r].running # "" /\ rq'[r].running = "" =>
              /\ rq'[r].pc \in {"b_defer", "m_defer", "i_defer"}
              /\ (rq'[r].err.msg = "signal: killed" \/ rq'[r].imgErr.msg = "signal: killed")]_vars

\* C19: every reply of Health has healthy = true and a nil error, whatever
\* requests are in flight or have been answered, and a Health call leaves
\* the requests and the filesystem as they are.
C19_HealthAlways ==
    /\ [](health.set => health.healthy /\ health.rpcErr = NilErr)
    /\ [][health' # health => UNCHANGED <<rq, dirs, fs>>]_vars

\* Health has replied while one request had failed and none was in flight
C19_Witness ==
    /\ health.set /\ health.healthy
    /\ \E r \in Reqs : rq[r].pc = "done" /\ ~rq[r].reply.success

\* the read-back of the output file returned all of its bytes
ReadBack(rec) == {k \in Runs(rec, "read") : rec.log[k].data.magic = "pdf"}

\* the bytes of the output file the pipeline produced
Produced(rec) ==
    IF rec.op = "build" THEN BuiltPDF
    ELSE Data("pdf", SumPages(rec.log[CHOOSE k \in ConcatRuns(rec) : TRUE].docs), "qpdf")

\* C20: a request is answered with success = true exactly when its pipeline
\* came to read back the whole output file, which it does only after every
\* earlier step succeeded; the reply then has the fixed note "build
\* successful" or "merge successful" and its data are the bytes of the
\* produced output file, which are not empty.
C20_SuccessPath ==
    \A r \in Reqs :
        rq[r].pc = "done" =>
            /\ rq[r].reply.success <=> ReadBack(rq[r]) # {}
            /\ rq[r].reply.success =>
                  /\ rq[r].reply.note =
                        Note(IF rq[r].op = "build" THEN "build successful" ELSE "merge successful")
                  /\ rq[r].reply.data = Produced(rq[r])
                  /\ \A k \in ReadBack(rq[r]) : rq[r].reply.data = rq[r].log[k].data
                  /\ ~IsEmpty(rq[r].reply.data)
                  /\ rq[r].op = "build" => RanOk(rq[r], "clean") /\ RanOk(rq[r], "build")
                  /\ rq[r].op = "merge" =>
                        \E k \in ConcatRuns(rq[r]) : rq[r].log[k].started /\ rq[r].log[k].code \in {0, 3}

\* a merge of an image and a PDF with force_even has been answered with success
C20_Witness ==
    \E r \in Reqs :
        /\ rq[r].op = "merge"
        /\ rq[r].pc = "done"
        /\ rq[r].forceEven
        /\ HasEvent(rq[r], "convert")
        /\ Len(rq[r].prepared) = 2
        /\ rq[r].reply.success
        /\ rq[r].reply.note = Note("merge successful")
        /\ rq[r].reply.data.pages = 4

\* the steps of a pipeline the history records
StepEvents == ToolEvents \cup {"write", "write img", "read", "read img"}

\* a step that ended in an error the specification calls fatal: a tool that
\* could not be started or exited non-zero (but for the tolerated status 3 of
\* the concatenation), a page count that is no number, a read that failed
Fatal(e) ==
    \/ e.ev \in ToolEvents /\ ~e.started
    \/ e.ev \in ToolEvents /\ e.code # 0 /\ ~(e.ev = "concat" /\ e.code = 3)
    \/ e.ev = "npages" /\ e.started /\ e.code = 0 /\ ~Atoi(e.out)[2]
    \/ e.ev \in {"read", "read img"} /\ e.data.magic # "pdf"

\* the texts of the notes that report the failure of a step
NotesOf(e) ==
    IF e.ev \in {"clean", "build"} THEN {"exit status", StartErr.msg}
    ELSE IF e.ev \in {"convert", "read img"} THEN {"failed to convert image to pdf"}
    ELSE IF e.ev = "npages" THEN {"exec qpdf page count", "show-npages output to int"}
    ELSE IF e.ev = "append" THEN {"adding blank to odd numberd pdf"}
    ELSE IF e.ev = "concat" THEN {"failed merging pdf files"}
    ELSE {IOErr.msg, "failed reading produced PDF"}

\* C21: a reply with success = false has a non-empty note; once a step of the
\* pipeline ended in a fatal error, no further step (file write, subprocess,
\* read-back) of the request is executed and the reply has success = false
\* with the note of that step's error, its exit status included.
C21_FirstFatalError ==
    \A r \in Reqs :
        LET l == rq[r].log IN
        /\ rq[r].reply.set /\ ~rq[r].reply.success => rq[r].reply.note.msg \notin {"", "nil"}
        /\ \A k \in DOMAIN l :
              Fatal(l[k]) =>
                  /\ \A m \in DOMAIN l : m > k => l[m].ev \notin StepEvents
                  /\ rq[r].running = ""
                  /\ rq[r].pc = "done" =>
                        /\ ~rq[r].reply.success
                        /\ rq[r].reply.note.msg \in NotesOf(l[k])
                        /\ rq[r].reply.note.code = l[k].code

\* C22: the deferred removal of a workspace, whether it succeeds or fails,
\* leaves the bytes and the error the pipeline returns as they were when the
\* removal began (for a conversion workspace: the bytes and the error of the
\* conversion), and the reply is made of these alone: a failed removal
\* changes neither data nor success nor note.
C22_ReleaseKeepsResult ==
    /\ [][\A r \in Reqs :
             /\ rq[r].pc \in {"b_defer", "m_defer"} =>
                   rq'[r].final = rq[r].final /\ rq'[r].err = rq[r].err
             /\ rq[r].pc = "i_defer" =>
                   rq'[r].pdf = rq[r].pdf /\ rq'[r].imgErr = rq[r].imgErr]_vars
    /\ [](\A r \in Reqs :
             rq[r].pc = "done" =>
                 /\ rq[r].reply.data = rq[r].final
                 /\ rq[r].reply.success = (rq[r].err = NilErr)
                 /\ rq[r].reply.note =
                       IF rq[r].err # NilErr THEN rq[r].err
                       ELSE Note(IF rq[r].op = "build" THEN "build successful" ELSE "merge successful"))

\* a build whose workspace could not be removed has been answered with success
C22_Witness ==
    \E r \in Reqs :
        /\ rq[r].op = "build"
        /\ rq[r].pc = "done"
        /\ RemoveFailed(rq[r], rq[r].directory)
        /\ rq[r].directory \in dirs
        /\ rq[r].reply.success
        /\ rq[r].reply.data = BuiltPDF

\* C23: a merge whose concatenation exited with status 0 or 3 reads the
\* output file back once; when the read fails the reply has success = false
\* and the note that reading the produced PDF failed; when it returns the
\* file the reply has success = true and the bytes of that file.
C23_ToleratedStatusNeedsOutput ==
    \A r \in Reqs :
        rq[r].op = "merge" /\ rq[r].pc = "done" =>
            \A k \in ConcatRuns(rq[r]) :
                rq[r].log[k].started /\ rq[r].log[k].code \in {0, 3} =>
                    /\ Cardinality(Runs(rq[r], "read")) = 1
                    /\ \A m \in Runs(rq[r], "read") :
                          /\ m > k
                          /\ rq[r].log[m].path = <<rq[r].directory, rq[r].id \o ".pdf">>
                          /\ IF rq[r].log[m].data.magic = "pdf"
                             THEN /\ rq[r].reply.success
                                  /\ rq[r].reply.data = rq[r].log[m].data
                                  /\ rq[r].reply.data = Produced(rq[r])
                             ELSE /\ ~rq[r].reply.success
                                  /\ rq[r].reply.note.msg = "failed reading produced PDF"

\* after status 3 the output could not be read, and the merge has failed
C23_Witness ==
    \E r \in Reqs :
        /\ rq[r].op = "merge"
        /\ rq[r].pc = "done"
        /\ \E k \in ConcatRuns(rq[r]) : rq[r].log[k].code = 3
        /\ \E m \in Runs(rq[r], "read") : rq[r].log[m].data = NoData
        /\ ~rq[r].reply.success
        /\ rq[r].reply.note.msg = "failed reading produced PDF"

\* C24: every file a request writes lies directly inside a workspace the
\* request created, whatever the names of its input files; and once the
\* request has returned and its workspaces are gone, no file is left.
C24_Confined ==
    \A r \in Reqs :
        /\ \A k \in Runs(rq[r], "write") \cup Runs(rq[r], "write img") :
              /\ Len(rq[r].log[k].path) = 2
              /\ rq[r].log[k].path[1] \in rq[r].created
        /\ rq[r].pc = "done" /\ rq[r].created \cap dirs = {} /\ (\A q \in Reqs \ {r} : rq[q].pc = "idle")
              => DOMAIN fs = {}

\* C25: a request never has more than one subprocess that has not exited; a
\* subprocess is started only when none of the request's is running.
C25_OneSubprocess ==
    /\ [](\A r \in Reqs : rq[r].procs <= 1)
    /\ [][\A r \in Reqs : rq'[r].procs > rq[r].procs => rq[r].procs = 0 /\ rq[r].running = ""]_vars

\* a merge has run the conversion, the page count, the append and the
\* concatenation one after the other, and none of them is running any more
C25_Witness ==
    \E r \in Reqs :
        /\ rq[r].pc = "done"
        /\ \A e \in {"convert", "npages", "append", "concat"} : RanOk(rq[r], e)
        /\ rq[r].procs = 0

\* the runs of tool e by a request on its file or document i
RunsOn(rec, e, i) == {k \in Runs(rec, e) : rec.log[k].i = i}

\* C26: a request starts the clean pass, the build and the concatenation at
\* most once each, at most one conversion per input file and only for an
\* image, at most one page count and one blank-page append per document; so
\* no step, failed or not, is started a second time; and a reply, once
\* given, is the only one.
C26_NoRetry ==
    /\ [](\A r \in Reqs :
             /\ \A e \in {"clean", "build", "concat"} : Cardinality(Runs(rq[r], e)) <= 1
             /\ \A i \in DOMAIN rq[r].files :
                   /\ Cardinality(RunsOn(rq[r], "convert", i)) <= 1
                   /\ RunsOn(rq[r], "convert", i) # {} => rq[r].files[i].data.magic \in {"jpg", "png"}
                   /\ Cardinality(RunsOn(rq[r], "npages", i)) <= 1
                   /\ Cardinality(RunsOn(rq[r], "append", i)) <= 1
             /\ \A k \in Runs(rq[r], "convert") \cup Runs(rq[r], "npages") \cup Runs(rq[r], "append") :
                   rq[r].log[k].i \in DOMAIN rq[r].files
             /\ rq[r].reply.set => rq[r].pc = "done")
    /\ [][\A r \in Reqs : rq[r].reply.set => rq'[r].reply = rq[r].reply /\ rq'[r].log = rq[r].log]_vars

\* a build whose build step exited non-zero has been answered, the step run once
C26_Witness ==
    \E r \in Reqs :
        /\ rq[r].pc = "done"
        /\ \E k \in Runs(rq[r], "build") : rq[r].log[k].started /\ rq[r].log[k].code # 0
        /\ Cardinality(Runs(rq[r], "build")) = 1
        /\ rq[r].reply.set /\ ~rq[r].reply.success

\* C27: when the conversion tool exited non-zero or wrote to its standard
\* error, the conversion has failed: nothing is read back from it, no
\* prepared document is written, the concatenation is not invoked, and the
\* merge is answered with success = false and a note that names the image
\* file and carries the exit status of the tool.
C27_ConversionFailure ==
    \A r \in Reqs :
        \A k \in Runs(rq[r], "convert") :
            LET ev == rq[r].log[k] IN
            ev.started /\ (ev.code # 0 \/ ev.out # "") =>
                /\ \A m \in DOMAIN rq[r].log :
                      m > k => rq[r].log[m].ev \notin {"read img", "write", "concat"}
                /\ Runs(rq[r], "write") = {}
                /\ rq[r].pc \in {"i_defer", "i_ret"} =>
                      rq[r].imgErr.code = ev.code /\ rq[r].imgErr.name = ev.out
                /\ rq[r].pc = "done" =>
                      /\ ~rq[r].reply.success
                      /\ rq[r].reply.note.msg = "failed to convert image to pdf"
                      /\ rq[r].reply.note.name = rq[r].files[ev.i].name[1]
                      /\ rq[r].reply.note.code = ev.code

\* a page count or blank-page append that failed
ParityFailed(e) ==
    \/ e.ev \in {"npages", "append"} /\ e.code # 0
    \/ e.ev = "npages" /\ e.code = 0 /\ ~Atoi(e.out)[2]

\* C28: in a merge with force_even, after a page count that exited non-zero
\* or printed no number, or a blank-page append that exited non-zero, no
\* document is written or inspected any more, the concatenation is not
\* invoked and nothing is read back; the reply has success = false and the
\* note of the step that failed.
C28_ParityFailureAborts ==
    \A r \in Reqs :
        \A k \in Runs(rq[r], "npages") \cup Runs(rq[r], "append") :
            LET ev == rq[r].log[k] IN
            ParityFailed(ev) =>
                /\ rq[r].forceEven
                /\ \A m \in DOMAIN rq[r].log : m > k => rq[r].log[m].ev \notin StepEvents
                /\ ConcatRuns(rq[r]) = {}
                /\ rq[r].pc \in {"m_defer", "m_reply", "done"}
                /\ rq[r].err.msg =
                      IF ev.ev = "append" THEN "adding blank to odd numberd pdf"
                      ELSE IF ev.code # 0 THEN "exec qpdf page count"
                      ELSE "show-npages output to int"
                /\ rq[r].pc = "done" => ~rq[r].reply.success /\ rq[r].reply.note = rq[r].err

\* the append to the first of two documents failed; the second was never written
C28_Witness ==
    \E r \in Reqs :
        /\ rq[r].pc = "done"
        /\ Len(rq[r].prepared) = 2
        /\ \E k \in RunsOn(rq[r], "append", 1) : rq[r].log[k].code # 0
        /\ \A k \in Runs(rq[r], "write") : rq[r].log[k].i = 1
        /\ ~rq[r].reply.success

\* the positions of a merge between the creation of its workspace and the
\* deferred removal of it
MergeHolding ==
    {"m_classify", "i_uuid", "i_tempdir", "i_write", "i_convert", "i_read", "i_defer", "i_ret",
     "m_write", "m_npages", "m_append", "m_read", "m_defer"}

\* what both forms of C29 share: the merge workspace exists from before the
\* first classification until the deferred removal; a conversion has a
\* workspace of its own; the request holds at most two workspaces
C29_Held(rec) ==
    /\ rec.pc \in MergeHolding => rec.directory \in dirs /\ rec.directory \in rec.created
    /\ Runs(rec, "classify") # {} => rec.directory # ""
    /\ rec.pc \in {"i_write", "i_convert", "i_read", "i_defer"} =>
          /\ rec.imgDirectory \in dirs
          /\ rec.imgDirectory \in rec.created
          /\ rec.imgDirectory # rec.directory
    /\ Cardinality(Owned(rec)) <= 2
    /\ rec.pc \in {"m_classify", "m_write", "m_npages", "m_append", "m_read", "m_defer"} =>
          Owned(rec) = {rec.directory}

\* C29, as the specification states it: a merge holds its workspace from
\* before the first classification until it returns; the workspace of a
\* conversion is gone before the next file is classified; at most two
\* workspaces exist for the request at any time; and when the request has
\* returned, after a failure too, all of them are gone.
C29_WorkspacesHeld ==
    \A r \in Reqs :
        rq[r].op = "merge" =>
            /\ C29_Held(rq[r])
            /\ rq[r].pc = "m_classify" => rq[r].created \cap dirs = {rq[r].directory}
            /\ Cardinality(rq[r].created \cap dirs) <= 2
            /\ rq[r].pc = "done" => rq[r].created \cap dirs = {}

\* C29, amended: as above, but a workspace whose removal was attempted and
\* failed (the failure being logged) stays: before the next file is
\* classified and when the request has returned, every workspace of the
\* request that still exists, the merge workspace in use apart, is one whose
\* removal failed.
C29_WorkspacesHeldUnlessRemovalFailed ==
    \A r \in Reqs :
        rq[r].op = "merge" =>
            /\ C29_Held(rq[r])
            /\ rq[r].pc = "m_classify" =>
                  \A d \in (rq[r].created \cap dirs) \ {rq[r].directory} : RemoveFailed(rq[r], d)
            /\ rq[r].pc \in {"m_reply", "done"} =>
                  \A d \in rq[r].created \cap dirs : RemoveFailed(rq[r], d)

\* a merge converted its first image and failed converting the second; the
\* workspaces of both conversions and of the merge are gone
C29_Witness ==
    \E r \in Reqs :
        /\ rq[r].op = "merge"
        /\ rq[r].pc = "done"
        /\ \E k \in RunsOn(rq[r], "convert", 1) : rq[r].log[k].code = 0
        /\ \E k \in RunsOn(rq[r], "convert", 2) : rq[r].log[k].code # 0
        /\ rq[r].created \cap dirs = {}
        /\ ~rq[r].reply.success

\* C30: when a build has returned, on the success path and on every error
\* path, no file the request opened is still open.
C30_NoOpenHandle ==
    \A r \in Reqs : rq[r].op = "build" /\ rq[r].pc = "done" => rq[r].handles = 0
====
